---- MODULE Spec2Model ----
(***************************************************************************)
(* Model of the image upscaler: the POST route of the processing API       *)
(* (upscale via the remote model, resize, per-image results), the          *)
(* client-side validateImage check, and the ImageUploader component        *)
(* (upload, processing run, quality score, archive download).              *)
(***************************************************************************)
EXTENDS Integers, Sequences, FiniteSets, TLC

(***************************************************************************)
(* Bounds of the model.                                                    *)
(***************************************************************************)
\* longest images list of a modelled POST request
MaxImages == 2
\* number of distinct image payloads a POST request can carry
NumPayloads == 2

(***************************************************************************)
(* State.                                                                  *)
(***************************************************************************)
\* The POST route handling one request: the parsed body, where the handler
\* stands, the per-image callbacks, the number of predictions created, the
\* response sent, and the entries written to the error log.
VARIABLES body, spc, tasks, predictions, response, errlog

postVars == <<body, spc, tasks, predictions, response, errlog>>

\* One validateImage call: the probed size, where the probe stands, the
\* errors list, how the promise settled, and the live object URLs.
VARIABLES vW, vH, vpc, vMessages, vOutcome, objectUrls

validateVars == <<vW, vH, vpc, vMessages, vOutcome, objectUrls>>

\* The component: its React state (images, upscaledImages, errors, status,
\* isProcessing), the handleUpscale invocations in flight and how many were
\* started, the archive last handed to the browser, and the history the
\* properties refer to: the outputs of the run that last collected results,
\* those of the run that last ended, and the final status seen per outcome.
VARIABLES images, upscaledImages, errors, status, isProcessing, runs, nStarted,
          archive, collected, lastEnded, statusSeen

clientVars == <<images, upscaledImages, errors, status, isProcessing, runs, nStarted,
                archive, collected, lastEnded, statusSeen>>

vars == <<postVars, validateVars, clientVars>>

\* A step of the route, of validateImage, of the component leaves the rest alone.
OnlyPost == UNCHANGED <<validateVars, clientVars>>

OnlyValidate == UNCHANGED <<postVars, clientVars>>

OnlyClient == UNCHANGED <<postVars, validateVars>>

(***************************************************************************)
(* Values shared by the route and the component.                           *)
(***************************************************************************)
\* An absent optional field (data?: / error?:) is the empty sequence, a
\* present one the one-element sequence holding its value.
Absent == <<>>

Present(v) == <<v>>

\* A JSON value found in the images list.  isString: typeof img === 'string';
\* dataImage: the string starts with 'data:image/'; file: whose pixels the
\* string encodes (0 for none); form: which stage of the pipeline produced it.
DataUri(f, form) == [isString |-> TRUE, dataImage |-> TRUE, file |-> f, form |-> form]

NonString == [isString |-> FALSE, dataImage |-> FALSE, file |-> 0, form |-> "original"]

PlainText == [isString |-> TRUE, dataImage |-> FALSE, file |-> 0, form |-> "original"]

\* One line of a per-image log list.
LogLine(kind, index, msg) == [kind |-> kind, index |-> index, msg |-> msg]

(***************************************************************************)
(* The POST route.                                                         *)
(***************************************************************************)
\* validateImageData: a string starting with 'data:image/'.
validateImageDataAnyString(img) == img.isString

validateImageData(img) == img.isString /\ img.dataImage

RECURSIVE FilterValid(_)
\* images.filter(validateImageData): the valid elements, in order.
FilterValid(imgs) ==
  IF imgs = <<>> THEN <<>>
  ELSE IF validateImageData(Head(imgs))
       THEN <<Head(imgs)>> \o FilterValid(Tail(imgs))
       ELSE FilterValid(Tail(imgs))

\* How the remote upscale of one image can end: the prediction succeeds and
\* its output is fetched; the remote reports the GPU-memory failure; the
\* remote fails otherwise; the output asset cannot be fetched.
UpscaleOutcomes == {"ok", "gpu", "failed", "fetch"}

\* How the local resize can end.
ResizeOutcomes == {"ok", "fail"}

\* The message upscale's catch block throws for a failed outcome.
UpscaleError(o) ==
  IF o = "gpu"
  THEN "Image too large - try smaller input or reduce upscale factor (max 2x)"
  ELSE IF o = "fetch"
       THEN "Replicate API error: Failed to fetch upscaled image"
       ELSE "Replicate API error: Upscale failed"

\* upscale's successful return: a PNG data URI of the fetched output.
Upscaled(img) == DataUri(img.file, "upscaled")

\* resize's successful return: a PNG data URI of the resampled buffer.
Resized(img) == DataUri(img.file, "resized")

\* The message resize's catch block throws.
ResizeError == "Resize failed: Input buffer contains unsupported image format"

\* logs = [`Processing image ${index + 1}`]
StartLogs(i) == <<LogLine("Processing image", i, "")>>

\* The success payload of the map callback.
SuccessEntry(logs, processed) ==
  [data |-> Present(processed), error |-> Absent,
   logs |-> Append(logs, LogLine("Processing completed successfully", 0, ""))]

\* The failure payload of the map callback's catch block.
FailureEntry(logs, message) ==
  [data |-> Absent, error |-> Present(message),
   logs |-> Append(logs, LogLine("Error", 0, message))]

NoEntry == [data |-> Absent, error |-> Absent, logs |-> <<>>]

NoResponse == [status |-> 0, error |-> Absent, results |-> <<>>]

\* NextResponse.json({ error }, { status })
ErrorResponse(code, message) == [status |-> code, error |-> Present(message), results |-> <<>>]

\* logError appends one entry to the log file; a failed write is swallowed.
LogError(log, context, writeOk) == IF writeOk THEN log \cup {context} ELSE log

\* Promise.all over callbacks that never reject, then NextResponse.json({ results }).
BatchResponseRejecting(ts) ==
  IF \E i \in 1..Len(ts) : ts[i].entry.error # Absent
  THEN ErrorResponse(500, "Processing failed")
  ELSE [status |-> 200, error |-> Absent, results |-> [i \in 1..Len(ts) |-> ts[i].entry]]

BatchResponse(ts) ==
  [status |-> 200, error |-> Absent, results |-> [i \in 1..Len(ts) |-> ts[i].entry]]

Payloads == {DataUri(f, "original") : f \in 1..NumPayloads}

Elements == Payloads \cup {NonString, PlainText}

ImageLists == UNION {[1..n -> Elements] : n \in 0..MaxImages}

\* The request bodies: text that is not JSON, JSON null, another JSON scalar,
\* an object without images, an object whose images is not an array, and an
\* object with an images array.
Bodies ==
  {[kind |-> k, images |-> <<>>] : k \in {"unparseable", "null", "scalar", "missing", "nonarray"}}
    \cup {[kind |-> "array", images |-> l] : l \in ImageLists}

InitPost ==
  /\ body \in Bodies
  /\ spc = "received"
  /\ tasks = <<>>
  /\ predictions = 0
  /\ response = NoResponse
  /\ errlog = {}

\* request.json() or the destructuring of its value throws: the outer catch
\* logs the error and answers 500 with the error's message.
PostThrows ==
  /\ spc = "received"
  /\ body.kind \in {"unparseable", "null"}
  /\ \E writeOk \in BOOLEAN : errlog' = LogError(errlog, <<"API Route Error", 0>>, writeOk)
  /\ response' = ErrorResponse(500, IF body.kind = "unparseable"
                                    THEN "Unexpected token in JSON"
                                    ELSE "Cannot destructure property 'images'")
  /\ spc' = "responded"
  /\ UNCHANGED <<body, tasks, predictions>>
  /\ OnlyPost

\* images is not an array.
PostInvalidFormat ==
  /\ spc = "received"
  /\ body.kind \in {"scalar", "missing", "nonarray"}
  /\ response' = ErrorResponse(400, "Invalid request format")
  /\ spc' = "responded"
  /\ UNCHANGED <<body, tasks, predictions, errlog>>
  /\ OnlyPost

\* No element passes validateImageData.
PostNoValidImages ==
  /\ spc = "received"
  /\ body.kind = "array"
  /\ FilterValid(body.images) = <<>>
  /\ response' = ErrorResponse(400, "No valid images provided")
  /\ spc' = "responded"
  /\ UNCHANGED <<body, tasks, predictions, errlog>>
  /\ OnlyPost

\* validImages.map(...): every callback runs to its first suspension, which
\* is replicate.predictions.create inside upscale.
PostDispatch ==
  /\ spc = "received"
  /\ body.kind = "array"
  /\ LET valid == FilterValid(body.images) IN
       /\ valid # <<>>
       /\ tasks' = [i \in 1..Len(valid) |->
                      [img |-> valid[i], pc |-> "upscaling", logs |-> StartLogs(i),
                       up |-> "pending", rs |-> "pending", entry |-> NoEntry]]
       /\ predictions' = predictions + Len(valid)
  /\ spc' = "processing"
  /\ UNCHANGED <<body, response, errlog>>
  /\ OnlyPost

\* upscale of image i settles.  A failure is rethrown by processImage, caught
\* by the map callback, logged, and becomes the image's failure payload.
UpscaleSettles(i, o) ==
  /\ spc = "processing"
  /\ tasks[i].pc = "upscaling"
  /\ IF o = "ok"
     THEN /\ tasks' = [tasks EXCEPT ![i].pc = "resizing", ![i].up = o]
          /\ UNCHANGED errlog
     ELSE /\ tasks' = [tasks EXCEPT ![i].pc = "done", ![i].up = o,
                         ![i].entry = FailureEntry(tasks[i].logs, UpscaleError(o))]
          /\ \E writeOk \in BOOLEAN : errlog' = LogError(errlog, <<"Image error", i>>, writeOk)
  /\ UNCHANGED <<body, spc, predictions, response>>
  /\ OnlyPost

\* resize of image i settles.  Its result always starts with 'data:image/',
\* so the output validation of processImage passes on success.
ResizeSettles(i, o) ==
  /\ spc = "processing"
  /\ tasks[i].pc = "resizing"
  /\ IF o = "ok"
     THEN /\ tasks' = [tasks EXCEPT ![i].pc = "done", ![i].rs = o,
                         ![i].entry = IF validateImageData(Resized(Upscaled(tasks[i].img)))
                                      THEN SuccessEntry(tasks[i].logs, Resized(Upscaled(tasks[i].img)))
                                      ELSE FailureEntry(tasks[i].logs, "Invalid processed image data")]
          /\ UNCHANGED errlog
     ELSE /\ tasks' = [tasks EXCEPT ![i].pc = "done", ![i].rs = o,
                         ![i].entry = FailureEntry(tasks[i].logs, ResizeError)]
          /\ \E writeOk \in BOOLEAN : errlog' = LogError(errlog, <<"Image error", i>>, writeOk)
  /\ UNCHANGED <<body, spc, predictions, response>>
  /\ OnlyPost

\* Promise.all resolves once every callback has returned.
PostRespond ==
  /\ spc = "processing"
  /\ \A i \in 1..Len(tasks) : tasks[i].pc = "done"
  /\ response' = BatchResponse(tasks)
  /\ spc' = "responded"
  /\ UNCHANGED <<body, tasks, predictions, errlog>>
  /\ OnlyPost

NextPost ==
  \/ PostThrows
  \/ PostInvalidFormat
  \/ PostNoValidImages
  \/ PostDispatch
  \/ \E i \in 1..Len(tasks) : \E o \in UpscaleOutcomes : UpscaleSettles(i, o)
  \/ \E i \in 1..Len(tasks) : \E o \in ResizeOutcomes : ResizeSettles(i, o)
  \/ PostRespond

(***************************************************************************)
(* validateImage (ImageUploader.tsx).                                      *)
(***************************************************************************)
MIN_WIDTH == 2048

MIN_HEIGHT == 1080

\* The decoded pixel sizes the probe can report.
ProbeWidths == {200, 256, 1000, 1200, 1296, 2048, 4000}

ProbeHeights == {200, 256, 800, 1000, 1080, 3000}

\* One entry of validateImage's errors list.
Message(kind, w, h) == [kind |-> kind, w |-> w, h |-> h]

\* img.width < MIN_WIDTH || img.height < MIN_HEIGHT
BelowMinimum(w, h) == w < MIN_WIDTH \/ h < MIN_HEIGHT

\* img.width/img.height < ASPECT_RATIO * 0.9 with ASPECT_RATIO = 4/3.  In
\* IEEE doubles (4/3)*0.9 evaluates to the double nearest 1.2, and for pixel
\* sizes the quotient w/h is below it exactly when w/h < (4*9)/(3*10).
BelowLandscapeNoTolerance(w, h) == w * 3 < h * 4

BelowLandscape(w, h) == w * 3 * 10 < h * 4 * 9

\* img.width < 256 || img.height < 256
BelowFloor(w, h) == w < 256 \/ h < 256

\* The errors list built by img.onload, in push order.
ValidationMessages(w, h) ==
  (IF BelowMinimum(w, h) THEN <<Message("Resolution small - will attempt upscale", w, h)>> ELSE <<>>)
    \o (IF BelowLandscape(w, h) THEN <<Message("Image should be landscape-oriented", 0, 0)>> ELSE <<>>)
    \o (IF BelowFloor(w, h) THEN <<Message("Image too small - minimum 256x256 pixels", w, h)>> ELSE <<>>)

\* errors.length ? reject(errors.join(', ')) : resolve('')
Settle(msgs) == IF Len(msgs) > 0 THEN "rejected" ELSE "resolved"

\* The promise executor has run: the object URL exists and the image loads.
InitValidate ==
  /\ vW \in ProbeWidths
  /\ vH \in ProbeHeights
  /\ vpc = "loading"
  /\ vMessages = <<>>
  /\ vOutcome = "pending"
  /\ objectUrls = 1

\* img.onload
ValidateOnLoad ==
  /\ vpc = "loading"
  /\ vMessages' = ValidationMessages(vW, vH)
  /\ objectUrls' = objectUrls - 1
  /\ vOutcome' = Settle(ValidationMessages(vW, vH))
  /\ vpc' = "loaded"
  /\ UNCHANGED <<vW, vH>>
  /\ OnlyValidate

\* img.onerror: reject('Invalid image file'); the object URL is not revoked.
ValidateOnError ==
  /\ vpc = "loading"
  /\ vOutcome' = "rejected"
  /\ vpc' = "failed"
  /\ UNCHANGED <<vW, vH, vMessages, objectUrls>>
  /\ OnlyValidate

NextValidate == ValidateOnLoad \/ ValidateOnError

(***************************************************************************)
(* The ImageUploader component.                                            *)
(***************************************************************************)
\* most files one drop can bring
MaxFiles == 4
\* most processing runs started in one behaviour
MaxRuns == 2

CHUNK_SIZE == 3

TargetWidth == 4000

TargetHeight == 3000

UpscaleFactor == 2

\* The pixel size of the files the user can drop.
FileWidth(f) ==
  CASE f = 1 -> 800 [] f = 2 -> 6000 [] f = 3 -> 16000 [] f = 4 -> 4000 [] OTHER -> 1200

FileHeight(f) ==
  CASE f = 1 -> 600 [] f = 2 -> 4000 [] f = 3 -> 12000 [] f = 4 -> 3000 [] OTHER -> 1000

\* Object.assign(file, { preview, width, height })
ImageFile(f) == [file |-> f, width |-> FileWidth(f), height |-> FileHeight(f)]

\* a/b rounded to the nearest integer.
Round(a, b) == (2 * a + b) \div (2 * b)

\* sharp's resize(width, height, { fit: 'inside', withoutEnlargement: false })
\* of a w x h image: the larger shrink factor decides, the other side is rounded.
FitInside(w, h) ==
  IF w * TargetHeight > h * TargetWidth
  THEN [width |-> TargetWidth, height |-> Round(h * TargetWidth, w)]
  ELSE [width |-> Round(w * TargetHeight, h), height |-> TargetHeight]

\* getImageDimensions of a processed data URI: the 2x upscale of the file,
\* fitted inside the target box.
ImageDimensions(uri) ==
  FitInside(UpscaleFactor * FileWidth(uri.file), UpscaleFactor * FileHeight(uri.file))

Min(a, b) == IF a < b THEN a ELSE b

Max(a, b) == IF a > b THEN a ELSE b

\* qualityScore of a processed image record.  The product of the two double
\* quotients and 10, floored, equals the floor of the exact quotient for the
\* pixel sizes of the model.
QualityScore(img) ==
  Min((img.upscaledWidth * img.upscaledHeight * 10)
        \div (Max(img.originalWidth, 1) * Max(img.originalHeight, 1)), 10)

\* validRating = Math.max(1, Math.min(qualityScore, 10))
ValidRatingUnclamped(img) == Min(QualityScore(img), 10)

ValidRating(img) == Max(1, Min(QualityScore(img), 10))

\* disabled={isProcessing || !images.length} of the Upscale button.
UpscaleDisabledWhenEmpty == Len(images) = 0

UpscaleDisabled == isProcessing \/ Len(images) = 0

\* disabled={!upscaledImages.length} of the Download button.
DownloadDisabled == Len(upscaledImages) = 0

\* setErrors(prev => [...prev, `Image ${index + 1}: ${result.error}`])
AppendErrorReplacing(prev, index, message) == <<[index |-> index, msg |-> message]>>

AppendError(prev, index, message) == Append(prev, [index |-> index, msg |-> message])

\* readFileAsBase64 of a dropped file: reader.result is a data URL carrying
\* the file's MIME type, which for a file the dropzone accepted is image/*.
FileDataUriWithoutImageType(file) ==
  IF file.file = 1
  THEN [isString |-> TRUE, dataImage |-> FALSE, file |-> file.file, form |-> "original"]
  ELSE DataUri(file.file, "original")

FileDataUri(file) == DataUri(file.file, "original")

\* The record pushed for result number k of a run over the captured files.
ProcessedImage(files, k, result) ==
  [original |-> files[k].file, upscaled |-> result.data[1],
   originalWidth |-> files[k].width, originalHeight |-> files[k].height,
   upscaledWidth |-> 0, upscaledHeight |-> 0]

\* { ...img, upscaledWidth: dimensions.width, upscaledHeight: dimensions.height }
WithDimensions(img) ==
  [img EXCEPT !.upscaledWidth = ImageDimensions(img.upscaled).width,
              !.upscaledHeight = ImageDimensions(img.upscaled).height]

\* setStatus(processedImages.length ? ... : ...)
FinalStatus(processed) ==
  IF Len(processed) > 0 THEN "Processing complete!" ELSE "Processing completed with errors"

\* The results the processing request answers for a list of data URIs when
\* the images whose positions are in fails fail: the route's entries for
\* the valid images.
ProcessingResults(list, fails) ==
  LET valid == FilterValid(list) IN
    [i \in 1..Len(valid) |->
       IF i \in fails
       THEN FailureEntry(StartLogs(i), UpscaleError("failed"))
       ELSE SuccessEntry(StartLogs(i), Resized(Upscaled(valid[i])))]

\* The blob fetch(img.upscaled) yields.
Blob(uri) == [file |-> uri.file, form |-> uri.form]

\* folder.file(name, blob): an entry of that name is replaced.
ZipFile(zip, name, blob) == {e \in zip : e.name # name} \cup {[name |-> name, blob |-> blob]}

\* `image-${i + index + 1}.png` for the entry at position index of the chunk at i.
EntryNameInChunk(i, index) == index + 1

EntryName(i, index) == i + index + 1

\* upscaledImages.slice(i, i + CHUNK_SIZE)
Slice(list, i) == SubSeq(list, i + 1, Min(i + CHUNK_SIZE, Len(list)))

RECURSIVE AddChunk(_, _, _, _)
\* The archive after the entries of chunk (the slice starting at i) from
\* position index on have been added.
AddChunk(zip, chunk, i, index) ==
  IF index >= Len(chunk) THEN zip
  ELSE AddChunk(ZipFile(zip, EntryName(i, index), Blob(chunk[index + 1].upscaled)),
                chunk, i, index + 1)

RECURSIVE BuildArchive(_, _, _)
\* for (let i = 0; i < upscaledImages.length; i += CHUNK_SIZE) { ... }
BuildArchive(zip, list, i) ==
  IF i >= Len(list) THEN zip
  ELSE BuildArchive(AddChunk(zip, Slice(list, i), i, 0), list, i + CHUNK_SIZE)

\* The upscaled data of a list of processed image records.
Outputs(list) == [k \in 1..Len(list) |-> list[k].upscaled]

\* The archive last handed to the browser: its entries, whether no run was
\* in flight when Download was clicked, and what the most recent ended run
\* and the most recent collected results were at that moment.
NoArchive == [made |-> FALSE, entries |-> {}, quiet |-> FALSE, ended |-> <<>>, collected |-> <<>>]

\* Which of n submitted images fail in a modelled request: none, all, the
\* first, or every other one.
FailPatterns(n) == {{}, 1..n, {1} \cap (1..n), {k \in 1..n : k % 2 = 1}}

NoStatus == [full |-> "", partial |-> "", none |-> ""]

InitClient ==
  /\ images = <<>>
  /\ upscaledImages = <<>>
  /\ errors = <<>>
  /\ status = ""
  /\ isProcessing = FALSE
  /\ runs = <<>>
  /\ nStarted = 0
  /\ archive = NoArchive
  /\ collected = <<>>
  /\ lastEnded = <<>>
  /\ statusSeen = NoStatus

\* No handler is inside its synchronous result loop.
NoLoopRunning == \A r \in 1..Len(runs) : runs[r].pc # "loop"

\* The sequence without its element r.
Without(seq, r) == SubSeq(seq, 1, r - 1) \o SubSeq(seq, r + 1, Len(seq))

\* onDrop: the accepted files with their sizes replace the images list.
Drop(n) ==
  /\ NoLoopRunning
  /\ images' = [f \in 1..n |-> ImageFile(f)]
  /\ images' # images
  /\ UNCHANGED <<upscaledImages, errors, status, isProcessing, runs, nStarted,
                 archive, collected, lastEnded, statusSeen>>
  /\ OnlyClient

\* A click on the Upscale button starts handleUpscale, up to its first await.
\* The button is the handler's only caller, and React flushes the state set
\* in a click handler before the next click is dispatched, so the click sees
\* the disabled attribute of the current state.
HandleUpscale ==
  /\ NoLoopRunning
  /\ ~UpscaleDisabled
  /\ Len(images) # 0
  /\ nStarted < MaxRuns
  /\ isProcessing' = TRUE
  /\ status' = "Starting processing..."
  /\ errors' = <<>>
  /\ runs' = Append(runs, [files |-> images, pc |-> "reading", list |-> <<>>,
                           results |-> <<>>, k |-> 0, processed |-> <<>>])
  /\ nStarted' = nStarted + 1
  /\ UNCHANGED <<images, upscaledImages, archive, collected,
                 lastEnded, statusSeen>>
  /\ OnlyClient

\* catch and finally of handleUpscale for run r.
Catch(r, message) ==
  /\ status' = "Processing failed"
  /\ errors' = <<[index |-> 0, msg |-> message]>>
  /\ isProcessing' = FALSE
  /\ runs' = Without(runs, r)
  /\ lastEnded' = <<>>
  /\ UNCHANGED <<images, upscaledImages, nStarted, archive,
                 collected, statusSeen>>

\* Promise.all(images.map(readFileAsBase64)) settles: every file was read and
\* the list is posted to the worker, or a read was rejected.
ReadFilesSettle(r, ok) ==
  /\ NoLoopRunning
  /\ runs[r].pc = "reading"
  /\ IF ok
     THEN /\ runs' = [runs EXCEPT ![r].pc = "request",
                        ![r].list = [k \in 1..Len(runs[r].files) |->
                                       FileDataUri(runs[r].files[k])]]
          /\ UNCHANGED <<images, upscaledImages, errors, status, isProcessing, nStarted,
                         archive, collected, lastEnded, statusSeen>>
     ELSE Catch(r, "Failed to read file as base64")
  /\ OnlyClient

\* The processing request is answered with its results list, and the loop
\* over results.entries() begins.
ResultsArrive(r, fails) ==
  /\ NoLoopRunning
  /\ runs[r].pc = "request"
  /\ runs' = [runs EXCEPT ![r].pc = "loop", ![r].k = 1,
                ![r].results = ProcessingResults(runs[r].list, fails)]
  /\ UNCHANGED <<images, upscaledImages, errors, status, isProcessing, nStarted,
                 archive, collected, lastEnded, statusSeen>>
  /\ OnlyClient

\* The processing request fails or is answered without results.
RequestFails(r) ==
  /\ NoLoopRunning
  /\ runs[r].pc = "request"
  /\ Catch(r, "Processing request failed")
  /\ OnlyClient

\* One iteration of the loop over results.entries().
LoopStep(r) ==
  /\ runs[r].pc = "loop"
  /\ runs[r].k <= Len(runs[r].results)
  /\ LET k == runs[r].k
         result == runs[r].results[k] IN
       IF result.error # Absent
       THEN /\ errors' = AppendError(errors, k, result.error[1])
            /\ runs' = [runs EXCEPT ![r].k = k + 1]
       ELSE /\ runs' = [runs EXCEPT ![r].k = k + 1,
                          ![r].processed = Append(runs[r].processed,
                                                  ProcessedImage(runs[r].files, k, result))]
            /\ UNCHANGED errors
  /\ UNCHANGED <<images, upscaledImages, status, isProcessing, nStarted,
                 archive, collected, lastEnded, statusSeen>>
  /\ OnlyClient

\* After the loop: setUpscaledImages(processedImages), then the dimensions
\* of every processed image are awaited.
LoopEnd(r) ==
  /\ runs[r].pc = "loop"
  /\ runs[r].k > Len(runs[r].results)
  /\ upscaledImages' = runs[r].processed
  /\ collected' = Outputs(runs[r].processed)
  /\ runs' = [runs EXCEPT ![r].pc = "dimensions"]
  /\ UNCHANGED <<images, errors, status, isProcessing, nStarted,
                 archive, lastEnded, statusSeen>>
  /\ OnlyClient

\* How many of its images a finished run processed.
OutcomeClass(run) ==
  IF Len(run.processed) = Len(run.results) THEN "full"
  ELSE IF Len(run.processed) = 0 THEN "none" ELSE "partial"

\* Every processed image has loaded: the sizes are filled in, the final
\* status is set, and finally resets isProcessing.
DimensionsLoad(r) ==
  /\ NoLoopRunning
  /\ runs[r].pc = "dimensions"
  /\ upscaledImages' = [k \in 1..Len(runs[r].processed) |-> WithDimensions(runs[r].processed[k])]
  /\ status' = FinalStatus(runs[r].processed)
  /\ isProcessing' = FALSE
  /\ lastEnded' = Outputs(runs[r].processed)
  /\ statusSeen' = [statusSeen EXCEPT ![OutcomeClass(runs[r])] = FinalStatus(runs[r].processed)]
  /\ runs' = Without(runs, r)
  /\ UNCHANGED <<images, errors, nStarted, archive, collected>>
  /\ OnlyClient

\* A processed image fails to load: getImageDimensions never settles.
ImageLoadFails(r) ==
  /\ NoLoopRunning
  /\ runs[r].pc = "dimensions"
  /\ Len(runs[r].processed) > 0
  /\ runs' = [runs EXCEPT ![r].pc = "hung"]
  /\ UNCHANGED <<images, upscaledImages, errors, status, isProcessing, nStarted,
                 archive, collected, lastEnded, statusSeen>>
  /\ OnlyClient

\* A click on Download All runs handleDownload: the rendered list is walked
\* in chunks, each image fetched and added, and the archive is handed to the
\* browser.  The handler touches no component state, so its steps are one.
HandleDownload ==
  /\ NoLoopRunning
  /\ ~DownloadDisabled
  /\ archive' = [made |-> TRUE, entries |-> BuildArchive({}, upscaledImages, 0),
                 quiet |-> (runs = <<>>), ended |-> lastEnded, collected |-> collected]
  /\ archive' # archive
  /\ UNCHANGED <<images, upscaledImages, errors, status, isProcessing, runs, nStarted,
                 collected, lastEnded, statusSeen>>
  /\ OnlyClient

NextClient ==
  \/ \E n \in 0..MaxFiles : Drop(n)
  \/ HandleUpscale
  \/ \E r \in 1..Len(runs) : \E ok \in BOOLEAN : ReadFilesSettle(r, ok)
  \/ \E r \in 1..Len(runs) : \E fails \in FailPatterns(Len(runs[r].list)) : ResultsArrive(r, fails)
  \/ \E r \in 1..Len(runs) : RequestFails(r)
  \/ \E r \in 1..Len(runs) : LoopStep(r)
  \/ \E r \in 1..Len(runs) : LoopEnd(r)
  \/ \E r \in 1..Len(runs) : DimensionsLoad(r)
  \/ \E r \in 1..Len(runs) : ImageLoadFails(r)
  \/ HandleDownload

ClientIdle == InitClient


PostIdle ==
  /\ body = [kind |-> "scalar", images |-> <<>>]
  /\ spc = "idle"
  /\ tasks = <<>>
  /\ predictions = 0
  /\ response = NoResponse
  /\ errlog = {}

ValidateIdle ==
  /\ vW = 0
  /\ vH = 0
  /\ vpc = "idle"
  /\ vMessages = <<>>
  /\ vOutcome = "pending"
  /\ objectUrls = 0

\* A request has arrived at the route.
InitRoute == InitPost /\ ValidateIdle /\ ClientIdle

SpecPost == InitRoute /\ [][NextPost]_vars

\* validateImage has been called on a file.
InitProbe == InitValidate /\ PostIdle /\ ClientIdle

SpecValidate == InitProbe /\ [][NextValidate]_vars

\* The component has mounted.
Init == InitClient /\ PostIdle /\ ValidateIdle

Spec == Init /\ [][NextClient]_vars

\* The steps of a run that the browser takes by itself: every pending file
\* read, request and image load fires one of its events.
RunProgress ==
  \E r \in 1..Len(runs) :
    \/ \E ok \in BOOLEAN : ReadFilesSettle(r, ok)
    \/ \E fails \in FailPatterns(Len(runs[r].list)) : ResultsArrive(r, fails)
    \/ RequestFails(r)
    \/ LoopStep(r)
    \/ LoopEnd(r)
    \/ DimensionsLoad(r)
    \/ ImageLoadFails(r)

\* The component under an event loop that does not starve a pending event.
FairSpec == Init /\ [][NextClient]_vars /\ WF_vars(RunProgress)

(***************************************************************************)
(* Properties of the POST route.                                           *)
(***************************************************************************)
\* Every step of image i succeeded.
AllStepsOk(i) == tasks[i].up = "ok" /\ tasks[i].rs = "ok"

\* C1: once the images of a request have been processed, the response is a
\* 200 whose results hold one entry per valid image; the entry of an image
\* whose upscale or resize failed carries an error and no data; the entry of
\* an image whose steps all succeeded carries its own processed data, no
\* error and its own two log lines, whatever happened to the other images.
PerImageFailureIsolation ==
  (spc = "responded" /\ tasks # <<>>) =>
    /\ response.status = 200
    /\ response.error = Absent
    /\ Len(response.results) = Cardinality({k \in 1..Len(body.images) :
                                  body.images[k].isString /\ body.images[k].dataImage})
    /\ \A i \in 1..Len(response.results) :
         IF AllStepsOk(i)
         THEN response.results[i] =
                [data |-> <<DataUri(tasks[i].img.file, "resized")>>,
                 error |-> <<>>,
                 logs |-> <<LogLine("Processing image", i, ""),
                            LogLine("Processing completed successfully", 0, "")>>]
         ELSE /\ response.results[i].data = <<>>
              /\ Len(response.results[i].error) = 1

\* C1 witness: image 1 failed, image 2 succeeded, and the response is out.
IsolationWitness ==
  /\ spc = "responded"
  /\ Len(tasks) = 2
  /\ tasks[1].up = "failed"
  /\ AllStepsOk(2)
  /\ response.results[2].data # <<>>

\* No element of the images list is a string starting with 'data:image/'.
NoValidElement ==
  /\ body.kind = "array"
  /\ \A k \in 1..Len(body.images) : ~(body.images[k].isString /\ body.images[k].dataImage)

\* C2: a request whose images list is empty or holds no string starting
\* with 'data:image/' never creates a prediction, and is answered with
\* status 400 and a single top-level error message.
NoValidImagesRejected ==
  NoValidElement =>
    /\ predictions = 0
    /\ tasks = <<>>
    /\ spc = "responded" =>
         /\ response.status = 400
         /\ Len(response.error) = 1
         /\ response.results = <<>>

\* C2 witness: a non-empty list of invalid elements, one of them a string,
\* has been answered.
NoValidImagesWitness ==
  /\ NoValidElement
  /\ Len(body.images) = 2
  /\ body.images[1] = PlainText
  /\ spc = "responded"
  /\ response.status = 400

\* C3: a malformed body (not JSON, JSON null, images missing or not an
\* array) is answered with a 4xx carrying one top-level message, and no image
\* processing has started.
MalformedBodyIsClientError ==
  (spc = "responded" /\ body.kind \in {"unparseable", "null", "missing", "nonarray"}) =>
    /\ response.status \in 400..499
    /\ Len(response.error) = 1
    /\ predictions = 0

(***************************************************************************)
(* Properties of validateImage.                                            *)
(***************************************************************************)
HasMessage(kind) == \E k \in 1..Len(vMessages) : vMessages[k].kind = kind

\* C5: an image below the minimum width or height gets the upscale warning
\* and validateImage does not reject it unless it is below 256 pixels in
\* width or height.
SmallImageWarnedNotRejected ==
  (vpc = "loaded" /\ (vW < 2048 \/ vH < 1080)) =>
    /\ HasMessage("Resolution small - will attempt upscale")
    /\ vOutcome = "rejected" => (vW < 256 \/ vH < 256)

\* C6: the orientation warning is in the message list exactly when
\* 5*width < 6*height, whatever the other two checks found.
OrientationWarningIffBelowRatio ==
  vpc = "loaded" =>
    (HasMessage("Image should be landscape-oriented") <=> 5 * vW < 6 * vH)

\* C6 witness: all three checks fired on the same image.
AllThreeChecksFire ==
  /\ vpc = "loaded"
  /\ Len(vMessages) = 3
  /\ HasMessage("Image should be landscape-oriented")
  /\ HasMessage("Resolution small - will attempt upscale")
  /\ HasMessage("Image too small - minimum 256x256 pixels")

\* C11: once validateImage has settled, by onload or by onerror, the object
\* URL it created for the probe has been revoked.
ObjectUrlReleasedOnEveryOutcome ==
  vpc \in {"loaded", "failed"} => objectUrls = 0

(***************************************************************************)
(* Properties of the ImageUploader component.                              *)
(***************************************************************************)
\* C4: the rating displayed for a processed image record with positive
\* original and upscaled sizes is an integer from 1 to 10.
QualityScoreInRange ==
  \A k \in 1..Len(upscaledImages) :
    LET img == upscaledImages[k] IN
      (img.originalWidth > 0 /\ img.originalHeight > 0
         /\ img.upscaledWidth > 0 /\ img.upscaledHeight > 0)
        => (ValidRating(img) \in Int /\ 1 <= ValidRating(img) /\ ValidRating(img) <= 10)

\* C4 witness: a displayed record whose output is smaller than its input
\* and whose raw score is below the display range, next to one rated midway.
DegenerateScoreWitness ==
  /\ \E k \in 1..Len(upscaledImages) :
       /\ upscaledImages[k].upscaledWidth > 0
       /\ upscaledImages[k].upscaledWidth < upscaledImages[k].originalWidth
       /\ upscaledImages[k].upscaledHeight < upscaledImages[k].originalHeight
       /\ ValidRating(upscaledImages[k]) = 1
  /\ \E k \in 1..Len(upscaledImages) : ValidRating(upscaledImages[k]) \in 2..9

\* The archive holding exactly one entry image-k per element k of outputs.
ArchiveOf(outputs) ==
  {[name |-> k, blob |-> [file |-> outputs[k].file, form |-> outputs[k].form]] :
     k \in 1..Len(outputs)}

\* C7 as stated: an archive built while no run is in flight holds one entry
\* per image that succeeded in the most recent run (none if that run failed).
ArchiveMatchesMostRecentRun ==
  (archive.made /\ archive.quiet) => archive.entries = ArchiveOf(archive.ended)

\* C7 amended: the rendered list always holds the outputs of the most recent
\* run that collected its results; an archive is only built from a non-empty
\* list and holds exactly one entry image-k per element k of that list.
ArchiveMatchesCollectedResults ==
  /\ collected = [k \in 1..Len(upscaledImages) |-> upscaledImages[k].upscaled]
  /\ archive.made =>
       /\ Len(archive.collected) > 0
       /\ archive.entries = ArchiveOf(archive.collected)
       /\ Cardinality(archive.entries) = Len(archive.collected)

\* C7 witness: an archive whose entries span two chunks.
ArchiveSpansChunksWitness ==
  /\ archive.made
  /\ Cardinality(archive.entries) > CHUNK_SIZE

\* C8: at most one run is in flight, and isProcessing (which disables the
\* Upscale button) is true exactly while one is.
SingleRunInFlight ==
  /\ Len(runs) <= 1
  /\ isProcessing <=> runs # <<>>

\* C8 witness: a run is in flight while images are loaded and another run
\* could still be started were the button enabled.
RunInFlightWitness ==
  /\ Len(runs) = 1
  /\ runs[1].pc = "request"
  /\ Len(images) > 0
  /\ nStarted < MaxRuns

\* prev is a prefix of next.
IsPrefix(prev, next) ==
  /\ Len(prev) <= Len(next)
  /\ \A k \in 1..Len(prev) : prev[k] = next[k]

\* C9: the error list is empty when a run starts, and every step taken
\* while a run is in flight, its last one included, only appends to it.
ErrorsAppendOnlyDuringRun ==
  [][/\ (Len(runs') > Len(runs)) => errors' = <<>>
     /\ (runs # <<>> /\ Len(runs') <= Len(runs)) => IsPrefix(errors, errors')]_vars

\* C9 witness: a run in flight has recorded two messages.
TwoErrorsRecordedWitness ==
  /\ Len(runs) = 1
  /\ runs[1].pc \in {"loop", "dimensions"}
  /\ Len(errors) = 2

\* C10: runs that end fully successful, partially successful and wholly
\* failed leave pairwise different status values.
StatusDistinguishesOutcomes ==
  \A c, d \in {"full", "partial", "none"} :
    (c # d /\ statusSeen[c] # "" /\ statusSeen[d] # "") => statusSeen[c] # statusSeen[d]

\* The record holds the output derived from the file whose preview and
\* size it shows.
PairsOutputWithSource(rec) ==
  /\ rec.upscaled.file = rec.original
  /\ rec.upscaled.form = "resized"
  /\ rec.originalWidth = FileWidth(rec.original)
  /\ rec.originalHeight = FileHeight(rec.original)

EveryRunEnds == isProcessing ~> ~isProcessing

====
